---- MODULE Spec2Model ----
(***************************************************************************)
(* The exercise API server of src/index.js: four Express route handlers   *)
(* (/exercise/:id, /search, /random, /recommendations).  Every handler    *)
(* issues its own axios.get(url), awaits it, and computes its response    *)
(* from response.data inside a try block whose catch answers 500.         *)
(* The module keeps no state between requests: there is no catalog cache, *)
(* no fetch timestamp and no timeout on the fetch.                        *)
(***************************************************************************)
EXTENDS Integers, Sequences, FiniteSets, TLC

\* ---------------------------------------------------------------- bounds
MaxRemote == 1          \* largest dataset the remote publishes under Spec
MaxRequests == 3        \* requests accepted in one run of Spec
MaxCatalog == 12        \* largest dataset under HandlerSpec
MaxSampleCatalog == 3   \* largest dataset sampled by /random under HandlerSpec
MaxPageLen == 2         \* longest page query string under HandlerSpec

\* ----------------------------------------------------- program constants
PageSize == 10
SampleSize == 5
RecommendationLimit == 5

\* Two handler invocations may overlap at the await.
Slots == {"h1", "h2"}

\* ------------------------------------------------------------- JS values
Null == "<null>"
Undefined == "<undefined>"

\* A query/path parameter: absent (undefined) or a string of characters.
Absent == [present |-> FALSE, s |-> <<>>]
Str(s) == [present |-> TRUE, s |-> s]

\* A JS number: an integer or NaN.
NaN == [nan |-> TRUE, v |-> 0]
Num(n) == [nan |-> FALSE, v |-> n]

Max(a, b) == IF a >= b THEN a ELSE b
Min(a, b) == IF a <= b THEN a ELSE b

Digits == <<"0", "1", "2", "3", "4", "5", "6", "7", "8", "9">>
IsDigit(c) == \E d \in 1..Len(Digits) : Digits[d] = c
DigitVal(c) == (CHOOSE d \in 1..Len(Digits) : Digits[d] = c) - 1
AllDigits(s) == \A i \in 1..Len(s) : IsDigit(s[i])

RECURSIVE DigitsVal(_)
DigitsVal(s) ==
  IF s = <<>> THEN 0
  ELSE 10 * DigitsVal(SubSeq(s, 1, Len(s) - 1)) + DigitVal(s[Len(s)])

RECURSIVE DigitPrefix(_)
DigitPrefix(s) ==
  IF s = <<>> THEN <<>>
  ELSE IF IsDigit(s[1]) THEN <<s[1]>> \o DigitPrefix(Tail(s))
  ELSE <<>>

\* ToNumber on a string, as the `page - 1` coercion applies it: the whole
\* string must be a decimal literal; the empty string is 0.
StrToNumber(s) ==
  IF s = <<>> THEN Num(0)
  ELSE IF s[1] = "-"
       THEN IF Len(s) > 1 /\ AllDigits(Tail(s))
            THEN Num(0 - DigitsVal(Tail(s))) ELSE NaN
       ELSE IF AllDigits(s) THEN Num(DigitsVal(s)) ELSE NaN

\* parseInt on a string: an optional sign and the longest digit prefix.
ParseInt(s) ==
  LET neg == s # <<>> /\ s[1] = "-"
      rest == IF neg THEN Tail(s) ELSE s
      ds == DigitPrefix(rest)
  IN IF ds = <<>> THEN NaN
     ELSE Num(IF neg THEN 0 - DigitsVal(ds) ELSE DigitsVal(ds))

JsSub(a, k) == IF a.nan THEN NaN ELSE Num(a.v - k)
JsMul(a, k) == IF a.nan THEN NaN ELSE Num(a.v * k)
JsAdd(a, k) == IF a.nan THEN NaN ELSE Num(a.v + k)

\* Array.prototype.slice: NaN counts as 0, a negative index counts from the
\* end, both indices are clamped to the array.
ToIntegerOrZero(a) == IF a.nan THEN 0 ELSE a.v
RelIndex(k, len) == IF k < 0 THEN Max(len + k, 0) ELSE Min(k, len)
Slice(arr, start, end) ==
  LET from == RelIndex(ToIntegerOrZero(start), Len(arr))
      to == RelIndex(ToIntegerOrZero(end), Len(arr))
  IN IF from >= to THEN <<>> ELSE SubSeq(arr, from + 1, to)

CeilDiv(n, d) == (n + d - 1) \div d

\* ------------------------------------------------------------ the dataset
\* The remote JSON array of exercise records; the n-th published version
\* holds n records.  An id stands for the record's id string.
Names == << <<"p", "u", "s", "h">>, <<"p", "u", "l", "l">>,
            <<"s", "q", "u", "a", "t">> >>
Equipments == <<"barbell", Null>>
MuscleLists == << <<"chest">>, <<>>, <<"triceps", "chest">>, <<"chest">> >>

Record(i) ==
  [id |-> i,
   name |-> Names[((i - 1) % Len(Names)) + 1],
   equipment |-> Equipments[((i - 1) % Len(Equipments)) + 1],
   primaryMuscles |-> MuscleLists[((i - 1) % Len(MuscleLists)) + 1]]

Catalog(n) == [i \in 1..n |-> Record(i)]

\* ---------------------------------------------------------------- responses
Json(status, v) == [status |-> status, text |-> "", json |-> v]
Text(status, t) == [status |-> status, text |-> t, json |-> <<>>]

CatchResponseNoStatus == Text(200, "Internal server error")
\* The catch block of every handler.
CatchResponse == Text(500, "Internal server error")


\* JSON.stringify writes an undefined array entry as null.
JsonNull == [null |-> TRUE]

\* ------------------------------------------------------------- the matcher
\* new Fuse(exercises, {keys: ["name"]}).search(name): the records whose name
\* holds every character of the pattern in order, best score first, ties in
\* catalog order.  A pattern that is not a string (an absent name) makes the
\* library raise a TypeError; an empty pattern matches nothing.
RECURSIVE MatchEnd(_, _, _, _)
MatchEnd(q, text, i, j) ==
  IF i > Len(q) THEN j - 1
  ELSE IF j > Len(text) THEN 0
  ELSE IF q[i] = text[j] THEN MatchEnd(q, text, i + 1, j + 1)
  ELSE MatchEnd(q, text, i, j + 1)

IsMatch(q, text) == MatchEnd(q, text, 1, 1) > 0
Score(q, text) == MatchEnd(q, text, 1, 1) - Len(q)

LongestName(exercises) ==
  LET lens == {Len(exercises[i].name) : i \in 1..Len(exercises)} \cup {0}
  IN CHOOSE m \in lens : \A l \in lens : l <= m

RECURSIVE ByScore(_, _, _, _, _)
ByScore(refs, exercises, q, s, top) ==
  IF s > top THEN <<>>
  ELSE SelectSeq(refs, LAMBDA i : Score(q, exercises[i].name) = s)
         \o ByScore(refs, exercises, q, s + 1, top)

FuseThrows(name) == ~name.present

FuseSearch(exercises, q) ==
  LET all == [i \in 1..Len(exercises) |-> i]
      refs == SelectSeq(all, LAMBDA i : IsMatch(q, exercises[i].name))
      sorted == ByScore(refs, exercises, q, 0, LongestName(exercises))
  IN [k \in 1..Len(sorted) |->
        [item |-> exercises[sorted[k]], refIndex |-> sorted[k] - 1]]

\* ------------------------------------------------------------ the handlers
\* exercises.find((exercise) => exercise.id === id): first hit, 0 for none.
Find(exercises, id) ==
  LET hits == {i \in 1..Len(exercises) : exercises[i].id = id}
  IN IF hits = {} THEN 0 ELSE CHOOSE i \in hits : \A j \in hits : i <= j

ExerciseHandlerNoCheck(id, exercises) ==
  LET k == Find(exercises, id)
  IN IF k = 0 THEN Text(200, "") ELSE Json(200, exercises[k])
\* GET /exercise/:id after the await.
ExerciseHandler(id, exercises) ==
  LET k == Find(exercises, id)
  IN IF k = 0 THEN Text(404, "Exercise not found") ELSE Json(200, exercises[k])

\* const page = req.query.page || 1: an absent or empty page is the number 1.
PageDefaulted(page) == ~page.present \/ page.s = <<>>
\* page - 1 coerces the string with ToNumber; parseInt(page) reads a prefix.
PageNumber(page) == IF PageDefaulted(page) THEN Num(1) ELSE StrToNumber(page.s)
PageInt(page) == IF PageDefaulted(page) THEN Num(1) ELSE ParseInt(page.s)

SliceStartOffByOne(page) == JsMul(PageNumber(page), PageSize)
\* const start = (page - 1) * 10
SliceStart(page) == JsMul(JsSub(PageNumber(page), 1), PageSize)

TotalPagesFloor(n) == n \div PageSize
\* Math.ceil(result.length / 10)
TotalPages(n) == CeilDiv(n, PageSize)

\* GET /search after the await.
SearchHandler(name, page, exercises) ==
  IF FuseThrows(name) THEN CatchResponse
  ELSE LET result == FuseSearch(exercises, name.s)
           start == SliceStart(page)
           end == JsAdd(start, PageSize)
           data == Slice(result, start, end)
       IN Json(200, [results |-> Len(result),
                     page |-> PageInt(page),
                     total_pages |-> TotalPages(Len(result)),
                     data |-> data])

RandomIndicesInclusive(len) == 0..len
\* Math.floor(Math.random() * exercises.length), Math.random() in [0, 1).
RandomIndices(len) == IF len = 0 THEN {0} ELSE 0..(len - 1)

\* exercises[index] serialised by res.json: a record, or null when undefined.
At(exercises, index) ==
  IF index + 1 \in 1..Len(exercises) THEN exercises[index + 1] ELSE JsonNull

\* GET /random after the await, for the five indices drawn.
RandomHandler(indices, exercises) ==
  Json(200, [k \in 1..SampleSize |-> At(exercises, indices[k])])

\* exercise.primaryMuscles[0]
FirstMuscle(exercise) ==
  IF exercise.primaryMuscles = <<>> THEN Undefined ELSE exercise.primaryMuscles[1]

\* GET /recommendations after the await.
RecommendationsHandler(equipment, primaryMuscle, exercises) ==
  LET recommendations ==
        SelectSeq(exercises, LAMBDA exercise :
                    exercise.equipment = equipment
                    /\ FirstMuscle(exercise) = primaryMuscle)
  IN Json(200, Slice(recommendations, Num(0), Num(RecommendationLimit)))


\* ------------------------------------------------------------------- state
VARIABLES
  remote,   \* number of records in the dataset the remote URL serves now
  req,      \* per handler invocation: its position, inputs, reply, response
  nReq,     \* requests accepted so far
  nFetch,   \* axios.get calls issued so far
  primed    \* some axios.get has already succeeded

vars == <<remote, req, nReq, nFetch, primed>>

NoReply == [ok |-> FALSE, data |-> <<>>]
NoRes == Text(0, "")

Idle ==
  [pc |-> "idle", route |-> "", id |-> 0, name |-> Absent, page |-> Absent,
   equipment |-> Undefined, primaryMuscle |-> Undefined, primed |-> FALSE,
   reply |-> NoReply, res |-> NoRes]

\* A handler that has read its inputs and is suspended at `await axios.get(url)`.
Awaiting(route, id, name, page, equipment, primaryMuscle, wasPrimed) ==
  [pc |-> "awaiting", route |-> route, id |-> id, name |-> name, page |-> page,
   equipment |-> equipment, primaryMuscle |-> primaryMuscle,
   primed |-> wasPrimed, reply |-> NoReply, res |-> NoRes]

\* Inputs of the requests arriving under Spec.
ReqIds == 1..(MaxRemote + 1)
ReqNames == {Absent, Str(<<"u">>)}
ReqPages == {Absent, Str(<<"0">>), Str(<<"2">>)}
ReqEquipment == {"barbell"}
ReqMuscles == {Undefined, "chest"}

\* Inputs of the single request under HandlerSpec.
AllIds == 1..(MaxCatalog + 1)
AllNames == {Absent, Str(<<>>), Str(<<"u">>), Str(<<"p", "u">>), Str(<<"z">>)}
PageChars == {"-", "0", "1", "2", "a"}
AllPages ==
  {Absent} \cup {Str(s) : s \in UNION {[1..n -> PageChars] : n \in 0..MaxPageLen}}
AllEquipment == {Undefined, "barbell", "dumbbell"}
AllMuscles == {Undefined, "chest", "triceps"}

Init ==
  /\ remote \in 0..MaxRemote
  /\ req = [r \in Slots |-> Idle]
  /\ nReq = 0
  /\ nFetch = 0
  /\ primed = FALSE

IssueFetchIfCold == nFetch' = IF primed THEN nFetch ELSE nFetch + 1
\* axios.get(url): every handler issues its own fetch.
IssueFetch == nFetch' = nFetch + 1

\* A request arrives: the handler reads its inputs and calls axios.get.
Accept(r, awaiting) ==
  /\ req[r].pc = "idle"
  /\ nReq < MaxRequests
  /\ req' = [req EXCEPT ![r] = awaiting]
  /\ nReq' = nReq + 1
  /\ IssueFetch
  /\ UNCHANGED <<remote, primed>>

GetExercise(r) ==
  \E id \in ReqIds :
    Accept(r, Awaiting("exercise", id, Absent, Absent, Undefined, Undefined, primed))

GetSearch(r) ==
  \E name \in ReqNames, page \in ReqPages :
    Accept(r, Awaiting("search", 0, name, page, Undefined, Undefined, primed))

GetRandom(r) ==
  Accept(r, Awaiting("random", 0, Absent, Absent, Undefined, Undefined, primed))

GetRecommendations(r) ==
  \E equipment \in ReqEquipment, primaryMuscle \in ReqMuscles :
    Accept(r, Awaiting("recommendations", 0, Absent, Absent, equipment,
                       primaryMuscle, primed))

\* The remote answers 200 with the dataset it serves now: the promise resolves.
RemoteRespond(r) ==
  /\ req[r].pc = "awaiting"
  /\ req' = [req EXCEPT ![r].pc = "replied",
                        ![r].reply = [ok |-> TRUE, data |-> Catalog(remote)]]
  /\ primed' = TRUE
  /\ UNCHANGED <<remote, nReq, nFetch>>

\* The fetch fails (network error, non-2xx status): the promise rejects.
RemoteFail(r) ==
  /\ req[r].pc = "awaiting"
  /\ req' = [req EXCEPT ![r].pc = "replied", ![r].reply = NoReply]
  /\ UNCHANGED <<remote, nReq, nFetch, primed>>

ExercisesShared(r) == Catalog(remote)
\* const exercises = response.data
Exercises(r) == req[r].reply.data

\* The try block after the await, run on the fetched array.
ResponsesOn(q, exercises) ==
  IF q.route = "exercise" THEN {ExerciseHandler(q.id, exercises)}
  ELSE IF q.route = "search" THEN {SearchHandler(q.name, q.page, exercises)}
  ELSE IF q.route = "random"
       THEN {RandomHandler(ix, exercises) :
               ix \in [1..SampleSize -> RandomIndices(Len(exercises))]}
  ELSE {RecommendationsHandler(q.equipment, q.primaryMuscle, exercises)}

\* The responses the handler can send once its await has settled: a rejected
\* promise lands in the catch block.
Responses(r) ==
  IF ~req[r].reply.ok THEN {CatchResponse}
  ELSE ResponsesOn(req[r], Exercises(r))

\* The handler resumes after the await and sends its response.
Resume(r) ==
  /\ req[r].pc = "replied"
  /\ \E res \in Responses(r) :
       req' = [req EXCEPT ![r].pc = "done", ![r].res = res]
  /\ UNCHANGED <<remote, nReq, nFetch, primed>>

\* The response is on the wire; the invocation is over.
Release(r) ==
  /\ req[r].pc = "done"
  /\ req' = [req EXCEPT ![r] = Idle]
  /\ UNCHANGED <<remote, nReq, nFetch, primed>>

\* The maintainers publish another version of the dataset.
RemoteUpdate ==
  /\ \E n \in (0..MaxRemote) \ {remote} : remote' = n
  /\ UNCHANGED <<req, nReq, nFetch, primed>>

Next ==
  \/ \E r \in Slots : GetExercise(r)
  \/ \E r \in Slots : GetSearch(r)
  \/ \E r \in Slots : GetRandom(r)
  \/ \E r \in Slots : GetRecommendations(r)
  \/ \E r \in Slots : RemoteRespond(r)
  \/ \E r \in Slots : RemoteFail(r)
  \/ \E r \in Slots : Resume(r)
  \/ \E r \in Slots : Release(r)
  \/ RemoteUpdate

Spec == Init /\ [][Next]_vars

\* The event loop runs a continuation once its promise has settled; nothing
\* obliges the remote to answer.
FairSpec == Spec /\ \A r \in Slots : WF_vars(Resume(r))

\* One request, its inputs drawn from the wide sets, taken through the handler.
HandlerRequests ==
  {Awaiting("exercise", id, Absent, Absent, Undefined, Undefined, FALSE) :
     id \in AllIds}
  \cup {Awaiting("search", 0, name, page, Undefined, Undefined, FALSE) :
          name \in AllNames, page \in AllPages}
  \cup {Awaiting("random", 0, Absent, Absent, Undefined, Undefined, FALSE)}
  \cup {Awaiting("recommendations", 0, Absent, Absent, equipment, muscle, FALSE) :
          equipment \in AllEquipment, muscle \in AllMuscles}

HandlerInit ==
  /\ \E q \in HandlerRequests :
       /\ req = [r \in Slots |-> IF r = "h1" THEN q ELSE Idle]
       /\ remote \in 0..(IF q.route = "random" THEN MaxSampleCatalog ELSE MaxCatalog)
  /\ nReq = 1
  /\ nFetch = 1
  /\ primed = FALSE

HandlerNext ==
  \/ \E r \in Slots : RemoteRespond(r)
  \/ \E r \in Slots : RemoteFail(r)
  \/ \E r \in Slots : Resume(r)

HandlerSpec == HandlerInit /\ [][HandlerNext]_vars


\* ================================================================== claims
Done(r) == req[r].pc = "done"
Fetched(r) == req[r].reply.ok
Range(s) == {s[i] : i \in 1..Len(s)}

PageOne == Str(<<"1">>)
PageIsMalformed(page) ==
  PageDefaulted(page) \/ StrToNumber(page.s).nan \/ StrToNumber(page.s).v <= 0

\* C3: a /search whose page is absent, zero, negative or non-numeric is
\* answered exactly as the same search with page = 1.
C3_MalformedPageIsPageOne ==
  \A r \in Slots :
    (Done(r) /\ Fetched(r) /\ req[r].route = "search" /\ req[r].name.present
       /\ PageIsMalformed(req[r].page)) =>
      req[r].res = SearchHandler(req[r].name, PageOne, req[r].reply.data)

\* ---- C4
RECURSIVE NumToStr(_)
NumToStr(n) ==
  IF n < 10 THEN <<Digits[n + 1]>>
  ELSE NumToStr(n \div 10) \o <<Digits[(n % 10) + 1]>>

PageData(name, p, exercises) ==
  SearchHandler(name, Str(NumToStr(p)), exercises).json.data

RECURSIVE ConcatPages(_, _, _, _)
ConcatPages(name, exercises, p, total) ==
  IF p > total THEN <<>>
  ELSE PageData(name, p, exercises) \o ConcatPages(name, exercises, p + 1, total)

\* C4: for the query and catalog of a served search, the data of pages
\* 1..total_pages, concatenated, is the matcher's ordered sequence, and every
\* page before the last holds exactly 10 entries.
C4_PagesReconstructMatches ==
  \A r \in Slots :
    (Done(r) /\ Fetched(r) /\ req[r].route = "search" /\ req[r].name.present) =>
      LET name == req[r].name
          data == req[r].reply.data
          total == req[r].res.json.total_pages
      IN /\ ConcatPages(name, data, 1, total) = FuseSearch(data, name.s)
         /\ \A p \in 1..(total - 1) : Len(PageData(name, p, data)) = 10

C4_Witness ==
  \E r \in Slots :
    /\ Done(r) /\ Fetched(r) /\ req[r].route = "search" /\ req[r].name.present
    /\ req[r].res.json.total_pages = 2
    /\ req[r].res.json.results % 10 # 0
    /\ req[r].page = Str(<<"2">>)
    /\ Len(req[r].res.json.data) = req[r].res.json.results - 10

\* ---- C5
PageIsPositiveInt(page) ==
  page.present /\ page.s # <<>> /\ AllDigits(page.s) /\ DigitsVal(page.s) >= 1

\* C5: a /search for a query string with page p >= 1, its fetch succeeded, is
\* answered 200 with results = number of matches, total_pages =
\* ceil(results / 10), page = p, and data = the matches at positions
\* (p-1)*10 .. (p-1)*10+9, empty past the last page.
C5_PageEnvelope ==
  \A r \in Slots :
    (Done(r) /\ Fetched(r) /\ req[r].route = "search" /\ req[r].name.present
       /\ PageIsPositiveInt(req[r].page)) =>
      LET matches == FuseSearch(req[r].reply.data, req[r].name.s)
          n == Len(matches)
          p == DigitsVal(req[r].page.s)
          first == (p - 1) * 10
          count == Max(0, Min(n, first + 10) - first)
          body == req[r].res.json
      IN /\ req[r].res.status = 200
         /\ body.results = n
         /\ body.total_pages * 10 >= n
         /\ (body.total_pages - 1) * 10 < n
         /\ body.page = Num(p)
         /\ body.data = [k \in 1..count |-> matches[first + k]]

C5_Witness ==
  \E r \in Slots :
    /\ Done(r) /\ Fetched(r) /\ req[r].route = "search" /\ req[r].name.present
    /\ PageIsPositiveInt(req[r].page)
    /\ req[r].res.json.results > 10
    /\ DigitsVal(req[r].page.s) > req[r].res.json.total_pages
    /\ req[r].res.status = 200
    /\ req[r].res.json.data = <<>>

\* ---- C6
\* C6: after a successful fetch, /exercise/:id answers 200 with the record of
\* that id when the catalog has one, and 404 otherwise.
C6_LookupTotal ==
  \A r \in Slots :
    (Done(r) /\ Fetched(r) /\ req[r].route = "exercise") =>
      LET data == req[r].reply.data
          res == req[r].res
      IN IF \E i \in 1..Len(data) : data[i].id = req[r].id
         THEN /\ res.status = 200
              /\ res.json \in Range(data)
              /\ res.json.id = req[r].id
         ELSE /\ res.status = 404
              /\ res.text = "Exercise not found"

C6_Witness ==
  \E r \in Slots :
    /\ Done(r) /\ Fetched(r) /\ req[r].route = "exercise"
    /\ req[r].id > 1
    /\ req[r].res.status = 200
    /\ req[r].res.json = req[r].reply.data[req[r].id]

\* ---- C7
\* C7: /search, /random and /recommendations answer 500 only when the fetch
\* of that request failed.
C7_Only500OnFetchFailure ==
  \A r \in Slots :
    (Done(r) /\ req[r].route \in {"search", "random", "recommendations"}
       /\ req[r].res.status = 500) => ~Fetched(r)

\* ---- C8
\* C8: every accepted request eventually receives a response, even when the
\* remote never answers.
C8_EveryRequestAnswered ==
  \A r \in Slots : (req[r].pc = "awaiting") ~> (req[r].pc = "done")

\* ---- C9
\* C9 as stated: after a successful fetch /random answers 200 with exactly 5
\* entries, each a record of the fetched catalog, for every catalog size.
C9_FiveCatalogRecords ==
  \A r \in Slots :
    (Done(r) /\ Fetched(r) /\ req[r].route = "random") =>
      /\ req[r].res.status = 200
      /\ Len(req[r].res.json) = 5
      /\ \A k \in 1..5 : req[r].res.json[k] \in Range(req[r].reply.data)

\* C9 amended: after a successful fetch /random answers 200 with exactly 5
\* entries; each is a record of the fetched catalog when the catalog is not
\* empty, and each is null when the catalog is empty.
C9_FiveRecordsOrNulls ==
  \A r \in Slots :
    (Done(r) /\ Fetched(r) /\ req[r].route = "random") =>
      /\ req[r].res.status = 200
      /\ Len(req[r].res.json) = 5
      /\ \A k \in 1..5 :
           IF req[r].reply.data = <<>>
           THEN req[r].res.json[k] = JsonNull
           ELSE req[r].res.json[k] \in Range(req[r].reply.data)

C9_Witness ==
  \E r \in Slots :
    /\ Done(r) /\ Fetched(r) /\ req[r].route = "random"
    /\ Len(req[r].reply.data) = 2
    /\ req[r].res.json[1] = req[r].res.json[2]
    /\ req[r].res.json[1] # req[r].res.json[3]

\* ---- C10
\* res is a response the try block can produce on `exercises` for request q.
IsResponseOn(q, exercises, res) ==
  IF q.route = "exercise" THEN res = ExerciseHandler(q.id, exercises)
  ELSE IF q.route = "search" THEN res = SearchHandler(q.name, q.page, exercises)
  ELSE IF q.route = "random"
       THEN /\ res.status = 200
            /\ Len(res.json) = SampleSize
            /\ \A k \in 1..SampleSize :
                 \E i \in RandomIndices(Len(exercises)) :
                   res.json[k] = At(exercises, i)
  ELSE res = RecommendationsHandler(q.equipment, q.primaryMuscle, exercises)

\* The array a fetch delivers is one whole version of the dataset.
FetchIsWhole ==
  \A r \in Slots :
    (req[r].pc = "awaiting" /\ req'[r].pc = "replied" /\ req'[r].reply.ok) =>
      req'[r].reply.data = Catalog(remote)

\* A response is computed from the array the request's own fetch delivered.
ComputedFromOwnFetch ==
  \A r \in Slots :
    (req[r].pc = "replied" /\ req'[r].pc = "done" /\ req[r].reply.ok) =>
      IsResponseOn(req[r], req[r].reply.data, req'[r].res)

\* A step of one request leaves the other request and the dataset alone.
Isolation ==
  /\ \A s \in Slots : (req'[s].pc = req[s].pc) => (req'[s] = req[s])
  /\ (req' # req) => (remote' = remote)

\* C10: under every interleaving, a response is computed from one whole
\* dataset version, the one its own fetch returned; a step of one request
\* changes neither another request's data or response nor the dataset.
C10_OneSnapshotPerRequest ==
  [][FetchIsWhole /\ ComputedFromOwnFetch /\ Isolation]_vars

C10_Witness ==
  \E r, s \in Slots :
    /\ r # s
    /\ Done(r) /\ Fetched(r) /\ Done(s) /\ Fetched(s)
    /\ req[r].reply.data # req[s].reply.data
    /\ req[r].route = req[s].route

====
